---- MODULE Spec2Model ----
(***************************************************************************)
(* Model of the ANU QRNG client (package qrng, qrng.go).                   *)
(*                                                                         *)
(* One client object and one call at a time (the library has no internal   *)
(* concurrency).  A call is split where the code blocks or loops: the      *)
(* validation and request construction up to client.Do, the bit-width      *)
(* loop of GetRandomNumber (one action per iteration), and the arrival of  *)
(* the transport's answer, which completes doRequest and the reshaping of  *)
(* the accessor that issued it.                                            *)
(*                                                                         *)
(* Go's int is modelled as a two's-complement integer of IntBits bits;     *)
(* uint8 keeps its 8 bits.                                                 *)
(***************************************************************************)
EXTENDS Integers, Sequences, FiniteSets, TLC

VARIABLES
    client,     \* QRNGClient: [useAPIKey, APIKey]
    pc,         \* position of the current call: idle, bitsize, sent, done, panic
    call,       \* the accessor called and its arguments
    loc,        \* locals of GetRandomNumber: rangeSize, bitSize, requiredBytes, mask
    req,        \* the request handed to client.Do, while pc = "sent"
    sent,       \* requests handed to the transport during the current call
    rejected,   \* draws rejected by GetRandomNumber during the current call
    resp,       \* the transport's answer that completed the call (history)
    ret,        \* the call's return values: [val, err]
    scan,       \* enumeration harness: index of the next byte sequence
    hist        \* enumeration harness: per result, the number of sequences yielding it

vars == <<client, pc, call, loc, req, sent, rejected, resp, ret, scan, hist>>

----------------------------------------------------------------------------
(* Bounds of the model *)

IntBits == 11        \* width of Go's int in the model
MaxData == 3         \* longest data array an envelope carries
MaxRequests == 3     \* requests one GetRandomNumber call may send in the model

(* Program constants *)

maxUint8Length == 1024
maxUint16Length == 1024
maxBits == maxUint8Length * 8

----------------------------------------------------------------------------
(* Machine arithmetic *)

MinInt == -(2^(IntBits - 1))
MaxInt == 2^(IntBits - 1) - 1

\* the value an int holds after an operation whose exact result is x
Wrap(x) == ((x - MinInt) % (2^IntBits)) + MinInt

RECURSIVE AndU(_, _, _)
AndU(a, b, n) ==
    IF n = 0 THEN 0
    ELSE (a % 2) * (b % 2) + 2 * AndU(a \div 2, b \div 2, n - 1)

RECURSIVE OrU(_, _, _)
OrU(a, b, n) ==
    IF n = 0 THEN 0
    ELSE (IF (a % 2) + (b % 2) > 0 THEN 1 ELSE 0) + 2 * OrU(a \div 2, b \div 2, n - 1)

\* x & y and x | y on ints
BitAnd(x, y) == Wrap(AndU(x % (2^IntBits), y % (2^IntBits), IntBits))
BitOr(x, y) == Wrap(OrU(x % (2^IntBits), y % (2^IntBits), IntBits))

\* x << n for 0 <= n: bits shifted out are lost, a count >= the width gives 0
Shl(x, n) == IF n >= IntBits THEN 0 ELSE Wrap(x * (2^n))

\* x >> n, arithmetic shift
Shr(x, n) == IF n >= IntBits THEN (IF x < 0 THEN -1 ELSE 0) ELSE x \div (2^n)

\* (mutation of ToUint8: saturation instead of truncation)
ToUint8Saturating(v) == IF v > 255 THEN 255 ELSE IF v < 0 THEN 0 ELSE v

\* uint8(v), uint16(v): the low bits of v
ToUint8(v) == v % 256
ToUint16(v) == v % 65536

----------------------------------------------------------------------------
(* Errors *)

Err(kind, detail) == [kind |-> kind, detail |-> detail]
NoErr == Err("nil", "")

ErrInvalidRange == Err("ErrInvalidRange", "")
ErrRangeTooLarge == Err("ErrRangeTooLarge", "")
ErrMissingAPIKey == Err("ErrMissingAPIKey", "")
ErrInvalidHexType == Err("ErrInvalidHexType", "")
ErrInvalidBlockSize == Err("ErrInvalidBlockSize", "")

\* errors.Is(e, target) for the sentinel errors: a %w wrapper keeps the kind
ErrorsIs(e, target) == e.kind = target.kind

----------------------------------------------------------------------------
(* Reshaping functions *)

RECURSIVE extractLoop(_, _, _, _, _)
extractLoop(data, numBits, idx, i, bits) ==
    IF idx > Len(data) THEN bits
    ELSE LET bits2 == Append(bits, BitAnd(Shr(data[idx], i), 1)) IN
         IF Len(bits2) = numBits THEN bits2
         ELSE IF i = 0 THEN extractLoop(data, numBits, idx + 1, 7, bits2)
              ELSE extractLoop(data, numBits, idx, i - 1, bits2)

\* (mutation of extractBits: each byte unpacked least significant bit first)
extractBitsLSBFirst(data, numBits) ==
    [j \in 1..numBits |-> BitAnd(Shr(data[((j - 1) \div 8) + 1], (j - 1) % 8), 1)]

extractBits(data, numBits) == extractLoop(data, numBits, 1, 7, <<>>)

convertUint8(data) == [i \in 1..Len(data) |-> ToUint8(data[i])]

convertUint16(data) == [i \in 1..Len(data) |-> ToUint16(data[i])]

HexChars == <<"0", "1", "2", "3", "4", "5", "6", "7",
              "8", "9", "a", "b", "c", "d", "e", "f">>

RECURSIVE HexDigits(_)
HexDigits(n) ==
    IF n < 16 THEN <<HexChars[n + 1]>>
    ELSE Append(HexDigits(n \div 16), HexChars[(n % 16) + 1])

ZeroPad(s, width) ==
    IF Len(s) >= width THEN s ELSE [i \in 1..(width - Len(s)) |-> "0"] \o s

\* fmt.Sprintf("%0<width>x", v): a string is a sequence of characters
SprintfHex(width, v) ==
    IF v < 0 THEN <<"-">> \o ZeroPad(HexDigits(-v), width - 1)
    ELSE ZeroPad(HexDigits(v), width)

\* (mutation of formatHex: one digit per block for hex8 instead of two)
formatHexSingleDigit(data, hexType, blockSize) ==
    LET width == IF hexType = "hex8" THEN blockSize ELSE 4 IN
    [i \in 1..Len(data) |-> SprintfHex(width, data[i])]

formatHex(data, hexType, blockSize) ==
    LET width == IF hexType = "hex8" THEN blockSize * 2 ELSE 4 IN
    [i \in 1..Len(data) |-> SprintfHex(width, data[i])]

RECURSIVE bytesToIntFrom(_, _, _)
bytesToIntFrom(bytes, i, result) ==
    IF i > Len(bytes) THEN result
    ELSE bytesToIntFrom(bytes, i + 1, BitOr(Shl(result, 8), bytes[i]))

bytesToInt(bytes) == bytesToIntFrom(bytes, 1, 0)

----------------------------------------------------------------------------
(* The sampler's arithmetic *)

\* rangeSize := max - min + 1
RangeSize(min, max) == Wrap(Wrap(max - min) + 1)

\* (mutation of BitLoopCond: the loop also runs on when 1 << bitSize equals rangeSize)
BitLoopCondInclusive(bitSize, rangeSize) == Shl(1, bitSize) <= rangeSize

\* the condition of the bit-width loop
BitLoopCond(bitSize, rangeSize) == Shl(1, bitSize) < rangeSize

RequiredBytes(bitSize) == (bitSize + 7) \div 8

Mask(bitSize) == Wrap(Shl(1, bitSize) - 1)

\* (mutation of Accepts: the bound taken inclusively)
AcceptsInclusive(randInt, rangeSize) == randInt <= rangeSize

\* the acceptance test of the rejection loop
Accepts(randInt, rangeSize) == randInt < rangeSize

\* (mutation of Sample: reduction modulo the range size instead of rejection)
SampleModulo(min, rangeSize, mask, randomBytes) ==
    [accepted |-> TRUE,
     val |-> Wrap(min + (BitAnd(bytesToInt(randomBytes), mask) % rangeSize))]

\* one iteration of the rejection loop on the bytes GetRandomUint8 returned
Sample(min, rangeSize, mask, randomBytes) ==
    LET randInt == BitAnd(bytesToInt(randomBytes), mask) IN
    IF Accepts(randInt, rangeSize)
    THEN [accepted |-> TRUE, val |-> Wrap(min + randInt)]
    ELSE [accepted |-> FALSE, val |-> 0]

----------------------------------------------------------------------------
(* The client and the round trip *)

NewClient == [useAPIKey |-> FALSE, APIKey |-> ""]

NewClientWithAPIKey(apiKey) == [useAPIKey |-> TRUE, APIKey |-> apiKey]

requiresAPIKey(c) == c.useAPIKey

\* (mutation of MissingKey: the test of requiresAPIKey left out)
MissingKeyAnyClient(c) == c.APIKey = ""

\* the guard that opens doRequest
MissingKey(c) == requiresAPIKey(c) /\ c.APIKey = ""

\* strings.HasPrefix(dataType, "hex"), on the type tags the accessors pass
HasHexPrefix(dataType) == dataType \in {"hex8", "hex16", "hex32"}

NoReq == [length |-> 0, type |-> "", hasSize |-> FALSE, size |-> 0,
          hasKey |-> FALSE, key |-> ""]

\* the query parameters and the header of the request doRequest builds
BuildRequest(c, length, dataType, blockSize) ==
    [length  |-> length,
     type    |-> dataType,
     hasSize |-> HasHexPrefix(dataType) /\ blockSize > 0,
     size    |-> IF HasHexPrefix(dataType) /\ blockSize > 0 THEN blockSize ELSE 0,
     hasKey  |-> requiresAPIKey(c),
     key     |-> IF requiresAPIKey(c) THEN c.APIKey ELSE ""]

\* what the transport hands back: kind is
\*   "neterr"    client.Do failed
\*   "status"    a status other than 200 (bodyRead: whether its body could be read)
\*   "readfail"  status 200, reading the body failed
\*   "badjson"   status 200, the body is not a JSON envelope
\*   "envelope"  status 200 and a parsed QRNGResponse
Response(kind, bodyRead, success, error, data) ==
    [kind |-> kind, bodyRead |-> bodyRead, success |-> success,
     error |-> error, data |-> data]

NoResp == Response("none", FALSE, FALSE, "", <<>>)

\* (mutation of EnvelopeResult: the length of data is not checked)
EnvelopeResultNoLength(r, length) ==
    IF ~r.success
    THEN IF r.error # ""
         THEN [ok |-> FALSE, data |-> <<>>, err |-> Err("api error", r.error)]
         ELSE [ok |-> FALSE, data |-> <<>>, err |-> Err("api request failed", "")]
    ELSE [ok |-> TRUE, data |-> r.data, err |-> NoErr]

\* the checks doRequest makes on a parsed envelope
EnvelopeResult(r, length) ==
    IF ~r.success
    THEN IF r.error # ""
         THEN [ok |-> FALSE, data |-> <<>>, err |-> Err("api error", r.error)]
         ELSE [ok |-> FALSE, data |-> <<>>, err |-> Err("api request failed", "")]
    ELSE IF Len(r.data) < length
         THEN [ok |-> FALSE, data |-> <<>>, err |-> Err("insufficient data", "")]
         ELSE [ok |-> TRUE, data |-> r.data, err |-> NoErr]

\* doRequest from the return of client.Do on
doRequestResult(r, length) ==
    CASE r.kind = "neterr" ->
            [ok |-> FALSE, data |-> <<>>, err |-> Err("request failed", "")]
      [] r.kind = "status" ->
            [ok |-> FALSE, data |-> <<>>,
             err |-> Err("unexpected status code",
                         IF r.bodyRead THEN "body" ELSE "error reading body")]
      [] r.kind = "readfail" ->
            [ok |-> FALSE, data |-> <<>>, err |-> Err("failed reading response", "")]
      [] r.kind = "badjson" ->
            [ok |-> FALSE, data |-> <<>>, err |-> Err("json parse error", "")]
      [] OTHER -> EnvelopeResult(r, length)

----------------------------------------------------------------------------
(* Inputs *)

Keys == {"", "---"}

ErrorTexts == {"", "boom"}

DataVals == {-1, 1, 128, 256}

RECURSIVE SeqsUpTo(_, _)
SeqsUpTo(S, n) ==
    IF n = 0 THEN {<<>>}
    ELSE LET shorter == SeqsUpTo(S, n - 1) IN
         shorter \cup {Append(q, x) : q \in {t \in shorter : Len(t) = n - 1}, x \in S}

\* answers that fail before an envelope is parsed
TransportFailures ==
    {Response("neterr", FALSE, FALSE, "", <<>>),
     Response("status", TRUE, FALSE, "", <<>>),
     Response("status", FALSE, FALSE, "", <<>>),
     Response("readfail", FALSE, FALSE, "", <<>>),
     Response("badjson", FALSE, FALSE, "", <<>>)}

\* parsed envelopes; the data of an envelope with success = false is never read
Envelopes ==
    {Response("envelope", TRUE, TRUE, e, d) :
        e \in ErrorTexts, d \in SeqsUpTo(DataVals, MaxData)}
    \cup
    {Response("envelope", TRUE, FALSE, e, d) :
        e \in ErrorTexts, d \in SeqsUpTo({0}, MaxData)}

BitCounts == {-1, 0, 1, 8, 9, 17, maxBits, maxBits + 1}
ByteCounts == {-1, 0, 1, 2, maxUint8Length, maxUint8Length + 1}
ShortCounts == {-1, 0, 1, 2, maxUint16Length, maxUint16Length + 1}
BlockCounts == {1, 2}
BlockSizes == {0, 1, 2, 10, 11}
HexTypes == {"hex8", "hex16", "hex32", "uint8"}
Bounds == {MinInt, -1, 0, 1, 256, MaxInt - 1, MaxInt}

----------------------------------------------------------------------------
(* State *)

Call(name, a, b, t) == [name |-> name, a |-> a, b |-> b, t |-> t]
NoCall == Call("", 0, 0, "")

NoLoc == [rangeSize |-> 0, bitSize |-> 0, requiredBytes |-> 0, mask |-> 0]

Ret(val, err) == [val |-> val, err |-> err]
NoRet == Ret(<<>>, NoErr)

\* the tally of the enumeration of draws, before any draw
NoHist == [count |-> <<>>, rejects |-> 0, bytes |-> <<>>, accepted |-> FALSE, val |-> 0]

Init ==
    /\ client \in {NewClient} \cup {NewClientWithAPIKey(k) : k \in Keys}
    /\ pc = "idle"
    /\ call = NoCall
    /\ loc = NoLoc
    /\ req = NoReq
    /\ sent = 0
    /\ rejected = 0
    /\ resp = NoResp
    /\ ret = NoRet
    /\ scan = 0
    /\ hist = NoHist

\* APIKey is an exported field: the caller may assign it between calls
SetAPIKey(k) ==
    /\ pc = "idle"
    /\ client.APIKey # k
    /\ client' = [client EXCEPT !.APIKey = k]
    /\ UNCHANGED <<pc, call, loc, req, sent, rejected, resp, ret, scan, hist>>

\* the call returns with (val, err)
Finish(val, err) ==
    /\ pc' = "done"
    /\ ret' = Ret(val, err)

\* doRequest up to client.Do: the credential check, then the request is sent
SendOrFail(length, dataType, blockSize, nilval) ==
    IF MissingKey(client)
    THEN /\ Finish(nilval, ErrMissingAPIKey)
         /\ UNCHANGED <<req, sent>>
    ELSE /\ pc' = "sent"
         /\ req' = BuildRequest(client, length, dataType, blockSize)
         /\ sent' = sent + 1
         /\ ret' = NoRet

\* (mutation of ValidNumBits: a count of 0 passes)
ValidNumBitsFromZero(numBits) == ~(numBits < 0 \/ numBits > maxBits)

ValidNumBits(numBits) == ~(numBits < 1 \/ numBits > maxBits)
ValidNumBytes(numBytes) == ~(numBytes < 1 \/ numBytes > maxUint8Length)
ValidNumShorts(numShorts) == ~(numShorts < 1 \/ numShorts > maxUint16Length)
ValidHexType(hexType) == ~(hexType # "hex8" /\ hexType # "hex16")
ValidBlockSize(blockSize) == ~(blockSize < 1 \/ blockSize > 10)

\* GetRandomUint8 up to client.Do; nilval is what its caller returns with an error
StartUint8(numBytes, nilval) ==
    IF ~ValidNumBytes(numBytes)
    THEN /\ Finish(nilval, Err("numBytes must be between 1 and 1024", ""))
         /\ UNCHANGED <<req, sent>>
    ELSE SendOrFail(numBytes, "uint8", 0, nilval)

CallGetRandomBits(numBits) ==
    /\ pc = "idle"
    /\ call' = Call("GetRandomBits", numBits, 0, "")
    /\ IF ~ValidNumBits(numBits)
       THEN /\ Finish(<<>>, Err("numBits must be between 1 and 8192", ""))
            /\ UNCHANGED <<req, sent>>
       ELSE SendOrFail((numBits + 7) \div 8, "uint8", 0, <<>>)
    /\ UNCHANGED <<client, loc, rejected, resp, scan, hist>>

CallGetRandomUint8(numBytes) ==
    /\ pc = "idle"
    /\ call' = Call("GetRandomUint8", numBytes, 0, "")
    /\ StartUint8(numBytes, <<>>)
    /\ UNCHANGED <<client, loc, rejected, resp, scan, hist>>

CallGetRandomUint16(numShorts) ==
    /\ pc = "idle"
    /\ call' = Call("GetRandomUint16", numShorts, 0, "")
    /\ IF ~ValidNumShorts(numShorts)
       THEN /\ Finish(<<>>, Err("numShorts must be between 1 and 1024", ""))
            /\ UNCHANGED <<req, sent>>
       ELSE SendOrFail(numShorts, "uint16", 0, <<>>)
    /\ UNCHANGED <<client, loc, rejected, resp, scan, hist>>

CallGetRandomHex(blockCount, blockSize, hexType) ==
    /\ pc = "idle"
    /\ call' = Call("GetRandomHex", blockCount, blockSize, hexType)
    /\ IF ~ValidHexType(hexType)
       THEN /\ Finish(<<>>, ErrInvalidHexType)
            /\ UNCHANGED <<req, sent>>
       ELSE IF ~ValidBlockSize(blockSize)
            THEN /\ Finish(<<>>, ErrInvalidBlockSize)
                 /\ UNCHANGED <<req, sent>>
            ELSE SendOrFail(blockCount, hexType, blockSize, <<>>)
    /\ UNCHANGED <<client, loc, rejected, resp, scan, hist>>

\* (mutation of RangeOverflow: a range size that wrapped to 0 passes)
RangeOverflowNegativeOnly(rangeSize) == rangeSize < 0

\* the overflow guard on rangeSize
RangeOverflow(rangeSize) == rangeSize <= 0

\* GetRandomNumber up to the bit-width loop
CallGetRandomNumber(min, max) ==
    /\ pc = "idle"
    /\ call' = Call("GetRandomNumber", min, max, "")
    /\ IF min > max
       THEN /\ Finish(0, ErrInvalidRange)
            /\ UNCHANGED loc
       ELSE IF RangeOverflow(RangeSize(min, max))
            THEN /\ Finish(0, ErrRangeTooLarge)
                 /\ UNCHANGED loc
            ELSE /\ pc' = "bitsize"
                 /\ loc' = [NoLoc EXCEPT !.rangeSize = RangeSize(min, max),
                                         !.bitSize = 1]
                 /\ UNCHANGED ret
    /\ UNCHANGED <<client, req, sent, rejected, resp, scan, hist>>

\* one evaluation of the bit-width loop's condition; when it is false, the
\* rest of GetRandomNumber up to the first client.Do
BitSizeStep ==
    /\ pc = "bitsize"
    /\ IF loc.bitSize < 0
       THEN \* a negative shift count is a run-time panic
            /\ pc' = "panic"
            /\ UNCHANGED <<loc, req, sent, ret>>
       ELSE IF BitLoopCond(loc.bitSize, loc.rangeSize)
            THEN /\ loc' = [loc EXCEPT !.bitSize = Wrap(loc.bitSize + 1)]
                 /\ UNCHANGED <<pc, req, sent, ret>>
            ELSE IF loc.bitSize > maxBits
                 THEN /\ Finish(0, Err("ErrRangeTooLarge",
                                       "maximum supported bits is 8192"))
                      /\ UNCHANGED <<loc, req, sent>>
                 ELSE /\ loc' = [loc EXCEPT
                                   !.requiredBytes = RequiredBytes(loc.bitSize),
                                   !.mask = Mask(loc.bitSize)]
                      /\ StartUint8(RequiredBytes(loc.bitSize), 0)
    /\ UNCHANGED <<client, call, rejected, resp, scan, hist>>

\* (mutation of NumberIteration: a short envelope is retried instead of returned)
NumberIterationRetryShort(min, rangeSize, mask, d) ==
    IF ~d.ok /\ d.err.kind # "insufficient data"
    THEN [again |-> FALSE, val |-> 0, err |-> d.err]
    ELSE IF ~d.ok
         THEN [again |-> TRUE, val |-> 0, err |-> NoErr]
         ELSE LET s == Sample(min, rangeSize, mask, convertUint8(d.data)) IN
              IF s.accepted
              THEN [again |-> FALSE, val |-> s.val, err |-> NoErr]
              ELSE [again |-> TRUE, val |-> 0, err |-> NoErr]

\* one pass through the body of GetRandomNumber's loop, given what
\* GetRandomUint8's doRequest produced: return (val, err) or go round again
NumberIteration(min, rangeSize, mask, d) ==
    IF ~d.ok
    THEN [again |-> FALSE, val |-> 0, err |-> d.err]
    ELSE LET s == Sample(min, rangeSize, mask, convertUint8(d.data)) IN
         IF s.accepted
         THEN [again |-> FALSE, val |-> s.val, err |-> NoErr]
         ELSE [again |-> TRUE, val |-> 0, err |-> NoErr]

\* what an accessor with a single round trip returns on doRequest's result
Reshape(c, d) ==
    IF ~d.ok THEN Ret(<<>>, d.err)
    ELSE CASE c.name = "GetRandomBits"   -> Ret(extractBits(d.data, c.a), NoErr)
           [] c.name = "GetRandomUint8"  -> Ret(convertUint8(d.data), NoErr)
           [] c.name = "GetRandomUint16" -> Ret(convertUint16(d.data), NoErr)
           [] c.name = "GetRandomHex"    -> Ret(formatHex(d.data, c.t, c.b), NoErr)

\* client.Do returns r: the rest of doRequest and of the accessor that called it
Complete(r) ==
    /\ pc = "sent"
    /\ LET d == doRequestResult(r, req.length) IN
       IF call.name = "GetRandomNumber"
       THEN LET it == NumberIteration(call.a, loc.rangeSize, loc.mask, d) IN
            IF it.again
            THEN /\ sent < MaxRequests
                 /\ rejected' = IF d.ok THEN rejected + 1 ELSE rejected
                 /\ resp' = NoResp
                 /\ StartUint8(loc.requiredBytes, 0)
            ELSE /\ Finish(it.val, it.err)
                 /\ resp' = r
                 /\ UNCHANGED <<req, sent, rejected>>
       ELSE /\ pc' = "done"
            /\ ret' = Reshape(call, d)
            /\ resp' = r
            /\ UNCHANGED <<req, sent, rejected>>
    /\ UNCHANGED <<client, call, loc, scan, hist>>

\* the transport fails, or answers with something that is not an envelope
RespondFailure == \E r \in TransportFailures : Complete(r)

\* the transport delivers status 200 and a parseable envelope
RespondEnvelope == \E r \in Envelopes : Complete(r)

\* the caller takes the result and goes on to its next call
Return ==
    /\ pc = "done"
    /\ pc' = "idle"
    /\ call' = NoCall
    /\ loc' = NoLoc
    /\ req' = NoReq
    /\ sent' = 0
    /\ rejected' = 0
    /\ resp' = NoResp
    /\ ret' = NoRet
    /\ UNCHANGED <<client, scan, hist>>

Next ==
    \/ \E k \in Keys : SetAPIKey(k)
    \/ \E n \in BitCounts : CallGetRandomBits(n)
    \/ \E n \in ByteCounts : CallGetRandomUint8(n)
    \/ \E n \in ShortCounts : CallGetRandomUint16(n)
    \/ \E n \in BlockCounts, z \in BlockSizes, t \in HexTypes : CallGetRandomHex(n, z, t)
    \/ \E min \in Bounds, max \in Bounds : CallGetRandomNumber(min, max)
    \/ BitSizeStep
    \/ RespondFailure
    \/ RespondEnvelope
    \/ Return

Spec == Init /\ [][Next]_vars

TypeOK ==
    /\ pc \in {"idle", "bitsize", "sent", "done", "panic"}
    /\ sent \in 0..MaxRequests
    /\ rejected \in 0..MaxRequests

----------------------------------------------------------------------------
(* Enumeration of the sampler's draws.                                     *)
(*                                                                         *)
(* With the first request of a GetRandomNumber call in flight, ScanStep    *)
(* feeds the loop body every sequence of requiredBytes bytes in turn, as   *)
(* the data of a successful envelope of exactly the requested length, and  *)
(* tallies what the loop body does with it.                                *)

\* the scan-th sequence of k bytes, most significant byte first
ByteSeq(n, k) == [i \in 1..k |-> (n \div (256^(k - i))) % 256]

Tally(count, v) ==
    IF v \in DOMAIN count THEN [count EXCEPT ![v] = @ + 1] ELSE (v :> 1) @@ count

ScanStep ==
    /\ pc = "sent"
    /\ call.name = "GetRandomNumber"
    /\ sent = 1
    /\ scan < 256^loc.requiredBytes
    /\ LET bytes == ByteSeq(scan, loc.requiredBytes)
           d == EnvelopeResult(Response("envelope", TRUE, TRUE, "", bytes), req.length)
           it == NumberIteration(call.a, loc.rangeSize, loc.mask, d)
       IN  /\ scan' = scan + 1
           /\ hist' = [count    |-> IF it.again THEN hist.count
                                    ELSE Tally(hist.count, it.val),
                       rejects  |-> IF it.again THEN hist.rejects + 1 ELSE hist.rejects,
                       bytes    |-> bytes,
                       accepted |-> ~it.again,
                       val      |-> it.val]
    /\ UNCHANGED <<client, pc, call, loc, req, sent, rejected, resp, ret>>

ScanRanges == {<<0, 0>>, <<5, 5>>, <<0, 1>>, <<-1, 1>>, <<1, 6>>, <<1, 100>>,
               <<MinInt, MinInt + 200>>, <<0, 255>>, <<0, 256>>, <<-3, 296>>}

InitScan == Init /\ client = NewClient

NextScan ==
    \/ \E r \in ScanRanges : CallGetRandomNumber(r[1], r[2])
    \/ BitSizeStep
    \/ ScanStep

SpecScan == InitScan /\ [][NextScan]_vars

----------------------------------------------------------------------------
(* Claims *)

NumberDone == pc = "done" /\ call.name = "GetRandomNumber"

\* C1: whenever GetRandomNumber(min, max) returns without error, the value
\* returned lies in [min, max], whatever the upstream's envelopes carried and
\* however many draws were rejected before.
C1_ResultWithinBounds ==
    (NumberDone /\ ret.err = NoErr) => (call.a <= ret.val /\ ret.val <= call.b)

\* a call that rejected a draw and then accepted one from an envelope that was
\* longer than requested and carried a value outside 0..255
C1_Witness ==
    /\ NumberDone /\ ret.err = NoErr
    /\ rejected >= 1
    /\ Len(resp.data) > req.length
    /\ \E i \in 1..Len(resp.data) : resp.data[i] \notin 0..255

RECURSIVE BigEndian(_)
BigEndian(bytes) ==
    IF bytes = <<>> THEN 0
    ELSE 256 * BigEndian(SubSeq(bytes, 1, Len(bytes) - 1)) + bytes[Len(bytes)]

\* C2: with b the bit width and k the number of bytes requested, k is
\* ceil(b/8); a sequence of k bytes is accepted exactly with the result
\* min + (its big-endian value masked to the low b bits); and once all 256^k
\* sequences have been drawn, every v in [min, max] has been the result of
\* exactly 2^(8k-b) of them and all the other sequences were rejected.
C2_UniformCount ==
    (pc = "sent" /\ call.name = "GetRandomNumber" /\ scan > 0) =>
        LET b == loc.bitSize
            k == loc.requiredBytes
            share == 2^(8 * k - b)
        IN  /\ 8 * k >= b /\ 8 * (k - 1) < b
            /\ req.length = k
            /\ hist.accepted =>
                  hist.val = call.a + (BigEndian(hist.bytes) % (2^b))
            /\ scan = 256^k =>
                  /\ DOMAIN hist.count = call.a..call.b
                  /\ \A v \in call.a..call.b : hist.count[v] = share
                  /\ hist.rejects = 256^k - (call.b - call.a + 1) * share

\* every byte sequence drawn for a range with a negative lower bound whose
\* covering power of two is larger than the range, so that some were rejected
C2_Witness ==
    /\ pc = "sent" /\ call.name = "GetRandomNumber"
    /\ scan = 256^loc.requiredBytes
    /\ hist.rejects > 0
    /\ hist.count # <<>>
    /\ call.a < 0

\* the upstream eventually fails or delivers a draw that is accepted
RespondFinal ==
    /\ pc = "sent"
    /\ pc' = "done"
    /\ resp' \in TransportFailures \cup Envelopes
    /\ Complete(resp')

NextNumber ==
    \/ \E min \in Bounds, max \in Bounds : CallGetRandomNumber(min, max)
    \/ BitSizeStep
    \/ RespondFailure
    \/ RespondEnvelope
    \/ Return

SpecNumberFair ==
    /\ Init
    /\ [][NextNumber]_vars
    /\ WF_vars(BitSizeStep)
    /\ SF_vars(RespondFinal)

\* C3: under that fairness, every GetRandomNumber(min, max) with min <= max
\* that has been called eventually returns a value or an error.
C3_EventuallyReturns ==
    (call.name = "GetRandomNumber" /\ call.a <= call.b) ~> (pc = "done")

\* the exact range size does not fit the machine integer
ExactRangeOverflows(min, max) == max - min + 1 > MaxInt

\* C4: a GetRandomNumber call with min > max has returned (0, ErrInvalidRange);
\* one with min <= max whose range size overflows, or whose bit width exceeds
\* maxBits, has returned 0 and an error that is ErrRangeTooLarge; in both cases
\* the call never reached the transport.
C4_PreconditionErrors ==
    /\ (call.name = "GetRandomNumber" /\ call.a > call.b) =>
          (pc = "done" /\ ret = Ret(0, ErrInvalidRange) /\ sent = 0)
    /\ (call.name = "GetRandomNumber" /\ call.a <= call.b
            /\ (ExactRangeOverflows(call.a, call.b) \/ loc.bitSize > maxBits)) =>
          (/\ pc = "done" /\ sent = 0
           /\ ret.val = 0 /\ ErrorsIs(ret.err, ErrRangeTooLarge))

\* the full range of the machine integer, whose size wraps to 0
C4_Witness ==
    /\ NumberDone
    /\ call.a = MinInt /\ call.b = MaxInt
    /\ ret = Ret(0, ErrRangeTooLarge)
    /\ sent = 0

\* bit i of the two's-complement integer x
BitOf(x, i) == (x \div (2^i)) % 2

Succeeded(name) == pc = "done" /\ call.name = name /\ ret.err = NoErr

\* C5: a successful GetRandomBits(n) has n in [1, maxBits], sent one request
\* for ceil(n/8) uint8 values and returned exactly n elements, element j
\* (0-based) being bit 7 - j mod 8 of upstream element floor(j/8), also when
\* the envelope carried more elements than requested.
C5_BitsMSBFirst ==
    Succeeded("GetRandomBits") =>
        LET n == call.a IN
        /\ n \in 1..maxBits
        /\ sent = 1 /\ req.type = "uint8"
        /\ 8 * req.length >= n /\ 8 * (req.length - 1) < n
        /\ Len(ret.val) = n
        /\ \A j \in 0..(n - 1) :
              /\ ret.val[j + 1] \in {0, 1}
              /\ ret.val[j + 1] = BitOf(resp.data[(j \div 8) + 1], 7 - (j % 8))

\* 9 bits taken from an envelope longer than requested that carries values
\* outside 0..255
C5_Witness ==
    /\ Succeeded("GetRandomBits")
    /\ call.a = 9
    /\ Len(resp.data) > req.length
    /\ resp.data[1] = 256 /\ resp.data[2] = -1

\* the arguments pass the accessor's own validation
ValidArgs(c) ==
    CASE c.name = "GetRandomBits"   -> c.a \in 1..maxBits
      [] c.name = "GetRandomUint8"  -> c.a \in 1..maxUint8Length
      [] c.name = "GetRandomUint16" -> c.a \in 1..maxUint16Length
      [] c.name = "GetRandomHex"    -> c.t \in {"hex8", "hex16"} /\ c.b \in 1..10
      [] c.name = "GetRandomNumber" -> c.a <= c.b /\ ~ExactRangeOverflows(c.a, c.b)
      [] OTHER -> FALSE

\* C6: on a client that requires a key and has an empty one, a call with valid
\* arguments sends no request and, when it returns, returns ErrMissingAPIKey;
\* every request of a client that requires a key carries that key, non-empty,
\* as x-api-key; a client built with NewClient sends no such header and never
\* returns ErrMissingAPIKey.
C6_APIKey ==
    /\ (requiresAPIKey(client) /\ client.APIKey = "" /\ ValidArgs(call)) =>
          /\ sent = 0 /\ pc # "sent"
          /\ pc = "done" => ret.err = ErrMissingAPIKey
    /\ (requiresAPIKey(client) /\ sent >= 1) =>
          (req.hasKey /\ req.key = client.APIKey /\ req.key # "")
    /\ ~requiresAPIKey(client) =>
          /\ sent >= 1 => ~req.hasKey
          /\ pc = "done" => ~ErrorsIs(ret.err, ErrMissingAPIKey)

\* GetRandomUint16(1) on a client built with NewClientWithAPIKey("")
C6_Witness ==
    /\ pc = "done" /\ call = Call("GetRandomUint16", 1, 0, "")
    /\ client = NewClientWithAPIKey("")
    /\ ret = Ret(<<>>, ErrMissingAPIKey)
    /\ sent = 0

\* C7: when the answer that ended a call was a parsed envelope: with
\* success = false the call returned the envelope's message as an api error,
\* or the generic failure when the message is empty; with data shorter than
\* the requested length it returned an error, whatever the success flag; it
\* returned without error only with success = true and enough data.
C7_EnvelopeErrors ==
    (pc = "done" /\ resp.kind = "envelope") =>
        /\ ~resp.success =>
              ret.err = (IF resp.error # "" THEN Err("api error", resp.error)
                         ELSE Err("api request failed", ""))
        /\ Len(resp.data) < req.length => ret.err # NoErr
        /\ ret.err = NoErr => (resp.success /\ Len(resp.data) >= req.length)
        /\ ret.err # NoErr =>
              ret.val = (IF call.name = "GetRandomNumber" THEN 0 ELSE <<>>)

\* an envelope with success = true and too few elements
C7_Witness ==
    /\ pc = "done" /\ resp.kind = "envelope"
    /\ resp.success /\ resp.error = ""
    /\ Len(resp.data) = 1 /\ req.length = 2
    /\ ret.err.kind = "insufficient data"

\* C8: a call whose arguments fail the accessor's validation has returned a
\* nil result and an error (ErrInvalidHexType for an unknown hex type whatever
\* the block size, ErrInvalidBlockSize for a known type with a block size
\* outside [1, 10]) without sending a request, on either kind of client.
C8_ValidationFirst ==
    (call.name \in {"GetRandomBits", "GetRandomUint8", "GetRandomUint16", "GetRandomHex"}
        /\ ~ValidArgs(call)) =>
        /\ pc = "done" /\ sent = 0
        /\ ret.val = <<>> /\ ret.err # NoErr
        /\ ~ErrorsIs(ret.err, ErrMissingAPIKey)
        /\ call.name = "GetRandomHex" =>
              ret.err = (IF call.t \notin {"hex8", "hex16"} THEN ErrInvalidHexType
                         ELSE ErrInvalidBlockSize)

\* an unknown hex type together with a bad block size, on a client that
\* requires a key and has none
C8_Witness ==
    /\ pc = "done" /\ call.name = "GetRandomHex"
    /\ call.t = "hex32" /\ call.b = 11
    /\ MissingKey(client)
    /\ ret = Ret(<<>>, ErrInvalidHexType)

C10_RequestDiscipline ==
    /\ call.name # "GetRandomNumber" => (sent <= 1 /\ rejected = 0)
    /\ call.name = "GetRandomNumber" =>
          /\ sent = 0 => rejected = 0
          /\ sent >= 1 => sent = rejected + 1
          /\ pc = "done" /\ ret.err = NoErr => sent = rejected + 1
          /\ (pc = "done" /\ resp.kind # "none"
                /\ ~doRequestResult(resp, req.length).ok) =>
                ret = Ret(0, doRequestResult(resp, req.length).err)

\* a call that succeeded with its third request after two rejected draws
C10_Witness ==
    /\ Succeeded("GetRandomNumber")
    /\ rejected = 2 /\ sent = 3

\* the smallest b >= from with 2^b >= size
MinBits(size, from) ==
    CHOOSE b \in from..IntBits :
        /\ 2^b >= size
        /\ \A c \in from..(b - 1) : 2^c < size

\* the bit width, the mask and the request of a GetRandomNumber call that has
\* reached the transport are those of the smallest b >= from covering the range
UsesMinBits(from) ==
    (call.name = "GetRandomNumber" /\ sent >= 1) =>
        LET b == MinBits(call.b - call.a + 1, from) IN
        /\ loc.bitSize = b
        /\ loc.mask = 2^b - 1
        /\ loc.requiredBytes * 8 >= b /\ (loc.requiredBytes - 1) * 8 < b
        /\ req.length = loc.requiredBytes

\* C11 (as amended): whenever GetRandomNumber sends a request, the bit width b
\* it uses is the smallest integer b >= 1 with 2^b >= rangeSize, the mask is
\* 2^b - 1 and the number of bytes requested is ceil(b/8); for min = max the
\* width is 1.
C11_MinimalPositiveBitWidth == UsesMinBits(1)

\* C11 (as stated): the bit width is the smallest non-negative b with
\* 2^b >= rangeSize, the degenerate range min = max included.
C11_MinimalBitWidth == UsesMinBits(0)

\* a request sent for a range of a single value, with a width of one bit
C11_Witness ==
    /\ call.name = "GetRandomNumber" /\ sent >= 1
    /\ call.a = call.b
    /\ loc.bitSize = 1 /\ loc.mask = 1 /\ req.length = 1

\* C12: a successful GetRandomUint8(n), GetRandomUint16(n) or
\* GetRandomHex(n, size, type) has returned exactly n elements, also when the
\* envelope's data was longer than the requested length.
C12_ExactlyRequestedCount ==
    \A name \in {"GetRandomUint8", "GetRandomUint16", "GetRandomHex"} :
        Succeeded(name) => Len(ret.val) = call.a

\* the value of a lowercase hexadecimal digit
HexDigitValue(c) ==
    CASE c = "0" -> 0  [] c = "1" -> 1  [] c = "2" -> 2  [] c = "3" -> 3
      [] c = "4" -> 4  [] c = "5" -> 5  [] c = "6" -> 6  [] c = "7" -> 7
      [] c = "8" -> 8  [] c = "9" -> 9  [] c = "a" -> 10 [] c = "b" -> 11
      [] c = "c" -> 12 [] c = "d" -> 13 [] c = "e" -> 14 [] c = "f" -> 15

LowerHexDigits == {"0", "1", "2", "3", "4", "5", "6", "7",
                   "8", "9", "a", "b", "c", "d", "e", "f"}

RECURSIVE ParseHex(_)
ParseHex(str) ==
    IF str = <<>> THEN 0
    ELSE 16 * ParseHex(SubSeq(str, 1, Len(str) - 1)) + HexDigitValue(str[Len(str)])

\* str is the rendering of v in exactly width lowercase hexadecimal digits
FixedWidthHex(str, v, width) ==
    /\ Len(str) = width
    /\ \A i \in 1..Len(str) : str[i] \in LowerHexDigits
    /\ ParseHex(str) = v

\* the width the claim gives for a GetRandomHex call
ClaimedWidth(c) == IF c.t = "hex8" THEN 2 * c.b ELSE 4

\* v is representable in width hexadecimal digits (every integer of the model
\* is below 16^7)
FitsWidth(v, width) == v >= 0 /\ (width >= 7 \/ v < 16^width)

\* the hex16 example of the claim
HexExample ==
    formatHex(<<32767, 65535>>, "hex16", 4)
        = << <<"7", "f", "f", "f">>, <<"f", "f", "f", "f">> >>

\* C13 (as amended): a successful GetRandomHex returns one string per
\* upstream integer; for every upstream integer v with 0 <= v < 16^w, where w
\* is 2 * blockSize for hex8 and 4 for hex16, the string is v in exactly w
\* lowercase hexadecimal digits, zero-padded on the left; for any other
\* integer it is not of that form (more digits, or a minus sign); hex16 data
\* [32767, 65535] gives ["7fff", "ffff"].
C13_FixedWidthWhenRepresentable ==
    /\ HexExample
    /\ Succeeded("GetRandomHex") =>
          /\ Len(ret.val) = Len(resp.data)
          /\ \A i \in 1..Len(resp.data) :
                LET v == resp.data[i]
                    w == ClaimedWidth(call)
                IN  IF FitsWidth(v, w)
                    THEN FixedWidthHex(ret.val[i], v, w)
                    ELSE IF v < 0
                         THEN /\ ret.val[i][1] = "-"
                              /\ Len(ret.val[i]) >= w
                              /\ ParseHex(SubSeq(ret.val[i], 2, Len(ret.val[i]))) = -v
                         ELSE /\ Len(ret.val[i]) > w
                              /\ ParseHex(ret.val[i]) = v

\* C13 (as stated): every string of a successful GetRandomHex is the upstream
\* integer in exactly 2 * blockSize (hex8) or 4 (hex16) lowercase hexadecimal
\* digits, for every integer the envelope may carry.
C13_FixedWidthAlways ==
    /\ HexExample
    /\ Succeeded("GetRandomHex") =>
          /\ Len(ret.val) = Len(resp.data)
          /\ \A i \in 1..Len(resp.data) :
                FixedWidthHex(ret.val[i], resp.data[i], ClaimedWidth(call))

\* hex8 with block size 2: 1 and 256 padded to four digits
C13_Witness ==
    /\ Succeeded("GetRandomHex")
    /\ call.t = "hex8" /\ call.b = 2
    /\ resp.data = <<1, 256>>
    /\ ret.val = << <<"0", "0", "0", "1">>, <<"0", "1", "0", "0">> >>

====
